---- MODULE Spec2Model ----
(***************************************************************************)
(* Model of alphacsc:                                                      *)
(*   - alphacsc/learn_d_z_mcem.py : learn_d_z_weighted, the MCEM outer     *)
(*     loop (specification Spec: two successive calls of the function);    *)
(*   - benchmarks/multivariate_convolve.py : the gradient contractions     *)
(*     of ZtZ with D and test_equality (specification ConvSpec).           *)
(* Real numbers are exact rationals <<num, den>>; arrays are sequences,    *)
(* 1-based, so the python index t is the index t + 1 here.                 *)
(***************************************************************************)
EXTENDS Integers, Sequences, FiniteSets, TLC

(* ------------------------------ bounds -------------------------------- *)
MaxIterGlobal == 2
MaxIterMcmc == 2
MaxSeed == 1
MaxAtoms == 2
MaxChannels == 2
MaxTimesAtom == 2

\* the arguments n_atoms and n_times_atom of the modelled calls
n_atoms == 1
n_times_atom == 2

(* --------------------------- exact rationals -------------------------- *)
Abs(x) == IF x < 0 THEN -x ELSE x

RECURSIVE GCD(_, _)
GCD(a, b) == IF b = 0 THEN a ELSE GCD(b, a % b)

\* the reduced fraction n/d; d = 0 is the float inf (numpy's 1 / 0.0)
Rat(n, d) ==
  IF d = 0 THEN <<1, 0>>
  ELSE LET g == GCD(Abs(n), Abs(d))
           s == IF d < 0 THEN -1 ELSE 1
       IN  <<s * (n \div g), s * (d \div g)>>

RInv(q) == Rat(q[2], q[1])
RScale(c, q) == IF q[2] = 0 THEN q ELSE Rat(c * q[1], q[2])

RECURSIVE SumSeq(_)
SumSeq(s) == IF s = <<>> THEN 0 ELSE Head(s) + SumSeq(Tail(s))

\* a (rows x cols) array filled with one value
Full(rows, cols, v) == [i \in 1..rows |-> [t \in 1..cols |-> v]]
\* an elementwise map over a 2-d array
Map2Inv(a) == [i \in 1..Len(a) |-> [t \in 1..Len(a[i]) |-> RInv(a[i][t])]]
Map2Scale(c, a) == [i \in 1..Len(a) |-> [t \in 1..Len(a[i]) |-> RScale(c, a[i][t])]]

(* ------------------------- inputs of the call ------------------------- *)
\* python None for an array argument
None == <<>>

\* X : (n_trials, n_times)
XVals == { << <<0, 1, 0>> >>, << <<1, 2, 0>>, <<1, 1, 1>> >> }
\* ds_init : None or (n_atoms, n_times_atom)
DsInitVals == { None, [k \in 1..n_atoms |-> [t \in 1..n_times_atom |-> IF t = n_times_atom THEN 1 ELSE 0]] }
\* alpha: the default 1.9, and values outside [0, 2)
AlphaVals == { <<19, 10>>, <<2, 1>>, <<-1, 2>> }
\* random_state : None or an int seed
RandomStateVals == { [kind |-> "none", val |-> 0] } \cup
                   { [kind |-> "int", val |-> s] : s \in 0..MaxSeed }

Runs == {1, 2}

VARIABLES
  \* arguments of learn_d_z_weighted, the same for the two calls
  X, ds_init, alpha, n_iter_global, init_tau, n_iter_mcmc, random_state,
  \* per call: locals of learn_d_z_weighted
  pc, ii, phi, tau, rng, d_hat, z_hat, z_bound, ret,
  \* the generator objects alive, by identity (1 is numpy's global generator)
  gens,
  \* per call: what each Maximization / Expectation call was given and returned
  mlog, elog, trace, n_check,
  \* multivariate_convolve.py: test_equality
  cmode, cdims, ZtZ, cD, cu, cv, fi, reference, cres, assert_ok

margs == <<X, ds_init, alpha, n_iter_global, init_tau, n_iter_mcmc, random_state>>
mvars == <<pc, ii, phi, tau, rng, d_hat, z_hat, z_bound, ret, gens,
           mlog, elog, trace, n_check>>
cvars == <<cmode, cdims, ZtZ, cD, cu, cv, fi, reference, cres, assert_ok>>
vars == <<margs, mvars, cvars>>

n_trials == Len(X)
n_times == Len(X[1])

(* ------------------- collaborators (not in this file) ------------------ *)
\* numpy.random.RandomState: the stream of a generator in state s
GenStep(s) == (3 * s + 1) % 7

\* utils.check_random_state: None is numpy's global generator, an int seeds
\* a new generator, a generator is returned as it is
CheckRandomState(heap, rs) ==
  IF rs.kind = "none" THEN [heap |-> heap, id |-> 1]
  ELSE IF rs.kind = "int"
       THEN [heap |-> Append(heap, rs.val % 7), id |-> Len(heap) + 1]
       ELSE [heap |-> heap, id |-> rs.val]

\* the number of samples whose weight is at least 1
WCount(w) ==
  SumSeq([i \in 1..Len(w) |->
            SumSeq([t \in 1..Len(w[i]) |-> IF w[i][t][1] >= w[i][t][2] THEN 1 ELSE 0])])

\* learn_d_z: the alternating loop. The codes are initialised from the
\* generator, the dictionary too unless a warm start is given; the result
\* depends on the data, the sample weights, the warm start and the stream.
learn_d_z(Xa, w, dsi, rs, heap) ==
  LET c  == CheckRandomState(heap, rs)
      s0 == c.heap[c.id]
      s1 == GenStep(s0)
      s2 == IF dsi = None THEN GenStep(s1) ELSE s1
      L  == n_times_atom
      d0 == IF dsi = None
            THEN [k \in 1..n_atoms |->
                    [t \in 1..L |-> IF t = 1 + ((s1 + k) % L) THEN 1 ELSE 0]]
            ELSE dsi
      rot == WCount(w) + s0
  IN  [ d_hat |-> [k \in 1..n_atoms |-> [t \in 1..L |-> d0[k][1 + ((t - 1 + rot) % L)]]],
        z_hat |-> [k \in 1..n_atoms |-> [i \in 1..Len(Xa) |->
                     [t \in 1..(Len(Xa[i]) - L + 1) |-> (Xa[i][t] + s0 + k + WCount(w)) % 2]]],
        heap  |-> [c.heap EXCEPT ![c.id] = s2],
        gen   |-> c.id,
        state |-> s0,
        state_out |-> s2 ]

\* utils.construct_X: X_hat[i] = sum over the atoms k of z[k][i] * d[k] (full
\* convolution), shaped like X
construct_X(z, d) ==
  LET nv == Len(z[1][1])
      L  == Len(d[1])
  IN  [i \in 1..Len(z[1]) |-> [t \in 1..(nv + L - 1) |->
        SumSeq([k \in 1..Len(d) |->
          SumSeq([s \in 1..L |->
            IF t - s + 1 >= 1 /\ t - s + 1 <= nv THEN z[k][i][t - s + 1] * d[k][s] ELSE 0])])]]

\* the values a Metropolis-Hastings proposal takes
PhiVals == << <<1, 1>>, <<2, 1>>, <<4, 1>>, <<1, 2>> >>

\* the chain of estimate_phi_mh: one proposal per iteration, drawn from the
\* generator; accepted or not, entry by entry, by a test on the residual, alpha
\* and the draw
RECURSIVE MHChain(_, _, _, _, _, _)
MHChain(res, a, ph, s, it, n) ==
  IF it > n THEN [phi |-> ph, state |-> s]
  ELSE LET cand(i, t) == PhiVals[1 + ((s + Abs(res[i][t]) + i + t) % Len(PhiVals))]
           acc(i, t)  == (s + a[1] + it + i * t) % 2 = 0
       IN  MHChain(res, a,
                   [i \in 1..Len(ph) |-> [t \in 1..Len(ph[i]) |->
                      IF acc(i, t) THEN cand(i, t) ELSE ph[i][t]]],
                   GenStep(s), it + 1, n)

\* update_w.estimate_phi_mh: phi re-estimated from the residual X - X_hat,
\* tau = 1 / phi
estimate_phi_mh(Xa, Xh, a, ph, n_mcmc, rs, heap) ==
  LET c   == CheckRandomState(heap, rs)
      s0  == c.heap[c.id]
      res == [i \in 1..Len(Xa) |-> [t \in 1..Len(Xa[i]) |-> Xa[i][t] - Xh[i][t]]]
      ch  == MHChain(res, a, ph, s0, 1, n_mcmc)
  IN  [ phi   |-> ch.phi,
        tau   |-> Map2Inv(ch.phi),
        heap  |-> [c.heap EXCEPT ![c.id] = ch.state],
        gen   |-> c.id,
        state |-> s0,
        state_out |-> ch.state ]

(* ------------------------- learn_d_z_weighted -------------------------- *)
\* np.std(X, axis=1) ** 2 of one trial
RowVar(x) ==
  LET n  == Len(x)
      s1 == SumSeq(x)
      s2 == SumSeq([t \in 1..n |-> x[t] * x[t]])
  IN  Rat(n * s2 - s1 * s1, n * n)

\* lines 77-83: the initial phi
InitPhi(it, Xa) ==
  IF it THEN [i \in 1..Len(Xa) |-> [t \in 1..Len(Xa[1]) |-> RowVar(Xa[i])]]
  ELSE Full(Len(Xa), Len(Xa[1]), <<2, 1>>)

\* the fill values of phi and tau exchanged
InitTau_swapped(it, Xa) ==
  IF it THEN Map2Inv(InitPhi(it, Xa))
  ELSE Full(Len(Xa), Len(Xa[1]), <<2, 1>>)

\* lines 77-83: the initial tau
InitTau(it, Xa) ==
  IF it THEN Map2Inv(InitPhi(it, Xa))
  ELSE Full(Len(Xa), Len(Xa[1]), <<1, 2>>)

\* one iteration too many
LoopContinues_inclusive(r) == ii[r] <= n_iter_global

\* line 88: for ii in range(n_iter_global)
LoopContinues(r) == ii[r] < n_iter_global

\* the weights of the first iteration used again
MaxWeights_stale(r) == Map2Scale(2, InitTau(init_tau, X))

\* line 93: sample_weights=2 * tau
MaxWeights(r) == Map2Scale(2, tau[r])

\* the caller's dictionary given again at every iteration
MaxDsInit_reset(r) == ds_init

\* line 93: ds_init=d_hat
MaxDsInit(r) == d_hat[r]

\* the seed given instead of the generator
MaxRandomState_seed(r) == random_state

\* line 93: random_state=rng
MaxRandomState(r) == rng[r]

\* line 101: phi
ExpPhi(r) == phi[r]

\* line 99: X_hat = construct_X(z_hat, d_hat)
ExpXHat(r) == construct_X(z_hat[r], d_hat[r])

\* line 101: random_state=rng
ExpRandomState(r) == rng[r]

Terminated(r) == pc[r] \in {"done", "error"}
\* the two calls are made one after the other
Current(r) == \A q \in Runs : q < r => Terminated(q)

\* the conditions under which a call takes each of its steps
AtSetup(r) == Current(r) /\ pc[r] = "start"
AtMaximization(r) == Current(r) /\ pc[r] = "loop" /\ LoopContinues(r)
AtExpectation(r) == Current(r) /\ pc[r] = "expect"
AtReturn(r) == Current(r) /\ pc[r] = "loop" /\ ~LoopContinues(r)

\* lines 75-86
Setup(r) ==
  /\ AtSetup(r)
  /\ LET c == CheckRandomState(gens, random_state)
     IN  /\ gens' = c.heap
         /\ rng' = [rng EXCEPT ![r] = [kind |-> "gen", val |-> c.id]]
  /\ phi' = [phi EXCEPT ![r] = InitPhi(init_tau, X)]
  /\ tau' = [tau EXCEPT ![r] = InitTau(init_tau, X)]
  /\ d_hat' = [d_hat EXCEPT ![r] = ds_init]
  /\ ii' = [ii EXCEPT ![r] = 0]
  /\ n_check' = [n_check EXCEPT ![r] = @ + 1]
  /\ pc' = [pc EXCEPT ![r] = "loop"]
  /\ UNCHANGED <<margs, cvars, z_hat, z_bound, ret, mlog, elog, trace>>

\* lines 88-96: the Maximization step
Maximization(r) ==
  /\ AtMaximization(r)
  /\ LET w   == MaxWeights(r)
         dsi == MaxDsInit(r)
         rs  == MaxRandomState(r)
         out == learn_d_z(X, w, dsi, rs, gens)
     IN  /\ d_hat' = [d_hat EXCEPT ![r] = out.d_hat]
         /\ z_hat' = [z_hat EXCEPT ![r] = out.z_hat]
         /\ z_bound' = [z_bound EXCEPT ![r] = TRUE]
         /\ gens' = out.heap
         /\ mlog' = [mlog EXCEPT ![r] = Append(@,
               [sample_weights |-> w, ds_init |-> dsi, gen |-> out.gen,
                state |-> out.state, state_out |-> out.state_out,
                d_hat |-> out.d_hat, z_hat |-> out.z_hat])]
  /\ trace' = [trace EXCEPT ![r] = Append(@, "M")]
  /\ pc' = [pc EXCEPT ![r] = "expect"]
  /\ UNCHANGED <<margs, cvars, ii, phi, tau, rng, ret, elog, n_check>>

\* lines 98-102: the Expectation step, and the end of the loop body
Expectation(r) ==
  /\ AtExpectation(r)
  /\ LET xh  == ExpXHat(r)
         ph  == ExpPhi(r)
         rs  == ExpRandomState(r)
         out == estimate_phi_mh(X, xh, alpha, ph, n_iter_mcmc, rs, gens)
     IN  /\ phi' = [phi EXCEPT ![r] = out.phi]
         /\ tau' = [tau EXCEPT ![r] = out.tau]
         /\ gens' = out.heap
         /\ elog' = [elog EXCEPT ![r] = Append(@,
               [X_hat |-> xh, alpha |-> alpha, phi_in |-> ph, gen |-> out.gen,
                state |-> out.state, state_out |-> out.state_out,
                phi |-> out.phi, tau |-> out.tau])]
  /\ trace' = [trace EXCEPT ![r] = Append(@, "E")]
  /\ ii' = [ii EXCEPT ![r] = @ + 1]
  /\ pc' = [pc EXCEPT ![r] = "loop"]
  /\ UNCHANGED <<margs, cvars, rng, d_hat, z_hat, z_bound, ret, mlog, n_check>>

\* line 107: return d_hat, z_hat, tau (z_hat is a local the loop body binds)
Return(r) ==
  /\ AtReturn(r)
  /\ IF z_bound[r]
     THEN /\ ret' = [ret EXCEPT ![r] = <<d_hat[r], z_hat[r], tau[r]>>]
          /\ pc' = [pc EXCEPT ![r] = "done"]
     ELSE /\ ret' = ret
          /\ pc' = [pc EXCEPT ![r] = "error"]
  /\ UNCHANGED <<margs, cvars, ii, phi, tau, rng, d_hat, z_hat, z_bound, gens,
                 mlog, elog, trace, n_check>>

MInit ==
  /\ X \in XVals
  /\ ds_init \in DsInitVals
  /\ alpha \in AlphaVals
  /\ n_iter_global \in 0..MaxIterGlobal
  /\ init_tau \in BOOLEAN
  /\ n_iter_mcmc \in 1..MaxIterMcmc
  /\ random_state \in RandomStateVals
  /\ gens \in {<<s>> : s \in 0..MaxSeed}
  /\ pc = [r \in Runs |-> "start"]
  /\ ii = [r \in Runs |-> 0]
  /\ phi = [r \in Runs |-> <<>>]
  /\ tau = [r \in Runs |-> <<>>]
  /\ rng = [r \in Runs |-> [kind |-> "none", val |-> 0]]
  /\ d_hat = [r \in Runs |-> None]
  /\ z_hat = [r \in Runs |-> <<>>]
  /\ z_bound = [r \in Runs |-> FALSE]
  /\ ret = [r \in Runs |-> <<>>]
  /\ mlog = [r \in Runs |-> <<>>]
  /\ elog = [r \in Runs |-> <<>>]
  /\ trace = [r \in Runs |-> <<>>]
  /\ n_check = [r \in Runs |-> 0]

\* the convolution benchmark is not running
CIdle ==
  /\ cmode = "idle"
  /\ cdims = [n_atoms |-> 0, n_channels |-> 0, n_times_atom |-> 0]
  /\ ZtZ = <<>>
  /\ cD = <<>>
  /\ cu = <<>>
  /\ cv = <<>>
  /\ fi = 0
  /\ reference = <<>>
  /\ cres = <<>>
  /\ assert_ok = TRUE

Init == MInit /\ CIdle

Next ==
  \E r \in Runs : Setup(r) \/ Maximization(r) \/ Expectation(r) \/ Return(r)

Spec == Init /\ [][Next]_vars

(* ===================== benchmarks/multivariate_convolve ================ *)
\* s[::-1]
Reverse(s) == [i \in 1..Len(s) |-> s[Len(s) + 1 - i]]

\* np.dot / np.sum of a product, of two vectors
Dot(a, b) == SumSeq([i \in 1..Len(a) |-> a[i] * b[i]])

\* numpy.convolve(a, v, mode='valid'): the operands are exchanged when v is
\* the longer one; out[n] = sum_m a[n + N - 1 - m] * v[m]
ConvolveValid(a, v) ==
  LET A == IF Len(v) > Len(a) THEN v ELSE a
      V == IF Len(v) > Len(a) THEN a ELSE v
      M == Len(A)
      N == Len(V)
  IN  [n \in 1..(M - N + 1) |-> SumSeq([m \in 1..N |-> A[n + N - m] * V[m]])]

\* the full linear convolution, of length M + N - 1
FullConv(a, v) ==
  [n \in 1..(Len(a) + Len(v) - 1) |->
     SumSeq([m \in 1..Len(v) |->
        IF n - m + 1 >= 1 /\ n - m + 1 <= Len(a) THEN a[n - m + 1] * v[m] ELSE 0])]

\* scipy.signal.fftconvolve(a, v, mode='valid'): the full convolution (by
\* FFT), of which the centred part of length M - N + 1 is kept
FftConvolveValid(a, v) ==
  LET full   == FullConv(a, v)
      newlen == Abs(Len(a) - Len(v)) + 1
      start  == (Len(full) - newlen) \div 2
  IN  SubSeq(full, start + 1, start + newlen)

\* lines 16-29
scipy_fftconvolve(Z, D) ==
  [k0 \in 1..Len(D) |-> [p \in 1..Len(D[1]) |-> [t \in 1..Len(D[1][1]) |->
     SumSeq([k1 \in 1..Len(D) |-> FftConvolveValid(Z[k0][k1], D[k1][p])[t]])]]]

\* lines 32-44
numpy_convolve(Z, D) ==
  [k0 \in 1..Len(D) |-> [p \in 1..Len(D[1]) |-> [t \in 1..Len(D[1][1]) |->
     SumSeq([k1 \in 1..Len(D) |-> ConvolveValid(Z[k0][k1], D[k1][p])[t]])]]]

\* the atom not reversed
dot_and_numba_noflip(Z, D) ==
  LET L == Len(D[1][1])
  IN  [k0 \in 1..Len(D) |-> [p \in 1..Len(D[1]) |-> [t \in 1..L |->
        SumSeq([k1 \in 1..Len(D) |->
           Dot(SubSeq(Z[k0][k1], t, t + L - 1), D[k1][p])])]]]

\* lines 47-61
dot_and_numba(Z, D) ==
  LET L == Len(D[1][1])
  IN  [k0 \in 1..Len(D) |-> [p \in 1..Len(D[1]) |-> [t \in 1..L |->
        SumSeq([k1 \in 1..Len(D) |->
           Dot(SubSeq(Z[k0][k1], t, t + L - 1), Reverse(D[k1][p]))])]]]

\* lines 64-78: np.sum(ZtZ[k0, :, t:t + L] * D[:, p, ::-1])
sum_and_numba(Z, D) ==
  LET L == Len(D[1][1])
  IN  [k0 \in 1..Len(D) |-> [p \in 1..Len(D[1]) |-> [t \in 1..L |->
        SumSeq([k1 \in 1..Len(D) |->
           SumSeq([s \in 1..L |-> Z[k0][k1][t + s - 1] * Reverse(D[k1][p])[s]])])]]]

\* lines 81-93: D = D[:, :, ::-1], then one tensordot over the axes
\* ([1, 2], [0, 2]) for every t
tensordot(Z, D) ==
  LET L  == Len(D[1][1])
      Dr == [k \in 1..Len(D) |-> [p \in 1..Len(D[1]) |-> Reverse(D[k][p])]]
      G(t) == [k0 \in 1..Len(Z) |-> [p \in 1..Len(Dr[1]) |->
                SumSeq([k1 \in 1..Len(Dr) |->
                   SumSeq([s \in 1..L |-> SubSeq(Z[k0][k1], t, t + L - 1)[s] * Dr[k1][p][s]])])]]
  IN  [k0 \in 1..Len(Dr) |-> [p \in 1..Len(Dr[1]) |-> [t \in 1..L |-> G(t)[k0][p]]]]

\* line 102: n_times_atom = (ZtZ.shape[2] + 1) // 2
UvTimesAtom(Z) == (Len(Z[1][1]) + 1) \div 2
\* line 104: n_channels = uv.shape[1] - n_times_atom
UvChannels(Z, uv) == Len(uv[1]) - UvTimesAtom(Z)

\* the channel pattern of the output atom k0 instead of the atom k1
numpy_convolve_uv_k0(Z, uv) ==
  LET L == UvTimesAtom(Z)
      P == UvChannels(Z, uv)
      u == [k \in 1..Len(uv) |-> SubSeq(uv[k], 1, P)]
      v == [k \in 1..Len(uv) |-> SubSeq(uv[k], P + 1, Len(uv[k]))]
  IN  [k0 \in 1..Len(Z) |-> [p \in 1..P |-> [t \in 1..L |->
        SumSeq([k1 \in 1..Len(Z) |-> ConvolveValid(Z[k0][k1], v[k1])[t] * u[k0][p]])]]]

\* lines 96-115
numpy_convolve_uv(Z, uv) ==
  LET L == UvTimesAtom(Z)
      P == UvChannels(Z, uv)
      u == [k \in 1..Len(uv) |-> SubSeq(uv[k], 1, P)]
      v == [k \in 1..Len(uv) |-> SubSeq(uv[k], P + 1, Len(uv[k]))]
  IN  [k0 \in 1..Len(Z) |-> [p \in 1..P |-> [t \in 1..L |->
        SumSeq([k1 \in 1..Len(Z) |-> ConvolveValid(Z[k0][k1], v[k1])[t] * u[k1][p]])]]]

\* np.hstack([u, v])
hstack(u, v) == [k \in 1..Len(u) |-> u[k] \o v[k]]

\* line 133: D = u[:, :, None] * v[:, None, :]
OuterD(u, v) ==
  [k \in 1..Len(u) |-> [p \in 1..Len(u[1]) |-> [t \in 1..Len(v[1]) |-> u[k][p] * v[k][t]]]]

\* np.random.randn: the entry number idx of the array drawn under a seed
RECURSIVE Stream(_, _)
Stream(x, n) == IF n = 0 THEN x ELSE Stream((37 * x + 11) % 101, n - 1)
Randn(seed, idx) == (Stream(seed, idx) % 7) - 3

Randn2(seed, n1, n2) ==
  [a \in 1..n1 |-> [b \in 1..n2 |-> Randn(seed, (a - 1) * n2 + b)]]
Randn3(seed, n1, n2, n3) ==
  [a \in 1..n1 |-> [b \in 1..n2 |-> [c \in 1..n3 |->
     Randn(seed, ((a - 1) * n2 + (b - 1)) * n3 + c)]]]

\* lines 118-125
all_func == <<"numpy_convolve", "scipy_fftconvolve", "dot_and_numba",
              "sum_and_numba", "tensordot", "numpy_convolve_uv">>

\* lines 129-133 (test_equality: a rank-1 D) and 146-152 (run_one: any D)
CInit ==
  /\ cmode \in {"test_equality", "benchmark"}
  /\ cdims \in [n_atoms : 1..MaxAtoms, n_channels : 1..MaxChannels,
                n_times_atom : 1..MaxTimesAtom]
  /\ \E sz \in 0..MaxSeed, su \in 0..MaxSeed, sv \in 0..MaxSeed :
       /\ ZtZ = Randn3(sz, cdims.n_atoms, cdims.n_atoms, 2 * cdims.n_times_atom - 1)
       /\ cu = Randn2(10 + su, cdims.n_atoms, cdims.n_channels)
       /\ cv = Randn2(20 + sv, cdims.n_atoms, cdims.n_times_atom)
       /\ cD = IF cmode = "test_equality" THEN OuterD(cu, cv)
               ELSE Randn3(30 + su + sv, cdims.n_atoms, cdims.n_channels, cdims.n_times_atom)
  /\ fi = IF cmode = "test_equality" THEN 0 ELSE 1
  /\ reference = <<>>
  /\ cres = <<>>
  /\ assert_ok = TRUE

\* line 135: reference = all_func[0](ZtZ, D)
TestReference ==
  /\ cmode = "test_equality"
  /\ fi = 0
  /\ reference' = numpy_convolve(ZtZ, cD)
  /\ fi' = 1
  /\ UNCHANGED <<margs, mvars, cmode, cdims, ZtZ, cD, cu, cv, cres, assert_ok>>

\* lines 136-141 and 172-176: one turn of "for func in all_func", the
\* function called and, in test_equality, the assertion
CallFunc(name, G) ==
  /\ fi \in 1..Len(all_func)
  /\ all_func[fi] = name
  /\ cres' = Append(cres, [func |-> name, G |-> G])
  /\ assert_ok' = (assert_ok /\ (cmode = "test_equality" => G = reference))
  /\ fi' = fi + 1
  /\ UNCHANGED <<margs, mvars, cmode, cdims, ZtZ, cD, cu, cv, reference>>

Call_numpy_convolve == CallFunc("numpy_convolve", numpy_convolve(ZtZ, cD))
Call_scipy_fftconvolve == CallFunc("scipy_fftconvolve", scipy_fftconvolve(ZtZ, cD))
Call_dot_and_numba == CallFunc("dot_and_numba", dot_and_numba(ZtZ, cD))
Call_sum_and_numba == CallFunc("sum_and_numba", sum_and_numba(ZtZ, cD))
Call_tensordot == CallFunc("tensordot", tensordot(ZtZ, cD))
Call_numpy_convolve_uv == CallFunc("numpy_convolve_uv", numpy_convolve_uv(ZtZ, hstack(cu, cv)))

\* learn_d_z_weighted is not running
MIdle ==
  /\ X = <<>>
  /\ ds_init = None
  /\ alpha = <<19, 10>>
  /\ n_iter_global = 0
  /\ init_tau = FALSE
  /\ n_iter_mcmc = 0
  /\ random_state = [kind |-> "none", val |-> 0]
  /\ gens = <<0>>
  /\ pc = [r \in Runs |-> "idle"]
  /\ ii = [r \in Runs |-> 0]
  /\ phi = [r \in Runs |-> <<>>]
  /\ tau = [r \in Runs |-> <<>>]
  /\ rng = [r \in Runs |-> [kind |-> "none", val |-> 0]]
  /\ d_hat = [r \in Runs |-> None]
  /\ z_hat = [r \in Runs |-> <<>>]
  /\ z_bound = [r \in Runs |-> FALSE]
  /\ ret = [r \in Runs |-> <<>>]
  /\ mlog = [r \in Runs |-> <<>>]
  /\ elog = [r \in Runs |-> <<>>]
  /\ trace = [r \in Runs |-> <<>>]
  /\ n_check = [r \in Runs |-> 0]

ConvInit == CInit /\ MIdle

ConvNext ==
  \/ TestReference
  \/ Call_numpy_convolve
  \/ Call_scipy_fftconvolve
  \/ Call_dot_and_numba
  \/ Call_sum_and_numba
  \/ Call_tensordot
  \/ Call_numpy_convolve_uv

ConvSpec == ConvInit /\ [][ConvNext]_vars

(* ------------------------------ claims --------------------------------- *)
Last(s) == s[Len(s)]

\* C1: a call with n_iter_global = N runs exactly N Maximizations and N
\* Expectations, strictly alternating and starting with a Maximization (step
\* 2k-1 is the k-th Maximization, step 2k the k-th Expectation), then stops:
\* a call that has ended takes no further step, and a call that has not ended
\* (it has taken at most 2N steps) can always take its next step.
C1_ExactlyNSteps ==
  \A r \in Runs :
    /\ (Current(r) /\ ~Terminated(r)) =>
         (AtSetup(r) \/ AtMaximization(r) \/ AtExpectation(r) \/ AtReturn(r))
    /\ \A k \in 1..Len(trace[r]) : trace[r][k] = IF k % 2 = 1 THEN "M" ELSE "E"
    /\ Len(trace[r]) <= 2 * n_iter_global
    /\ Len(mlog[r]) = (Len(trace[r]) + 1) \div 2
    /\ Len(elog[r]) = Len(trace[r]) \div 2
    /\ Terminated(r) =>
         /\ Len(mlog[r]) = n_iter_global
         /\ Len(elog[r]) = n_iter_global
         /\ ~(AtSetup(r) \/ AtMaximization(r) \/ AtExpectation(r) \/ AtReturn(r))

C1_Witness ==
  \E r \in Runs : Terminated(r) /\ n_iter_global = MaxIterGlobal /\ Len(trace[r]) >= 4

\* C2: with init_tau false, phi = 2 and tau = 1/2 at every (trial, time) entry
\* until the first Expectation, and the sample_weights of the first
\* Maximization are 1 at every entry of an (n_trials, n_times) array.
C2_UnitWeightsFirst ==
  ~init_tau =>
    \A r \in Runs :
      /\ (pc[r] # "start" /\ elog[r] = <<>>) =>
            /\ phi[r] = Full(n_trials, n_times, <<2, 1>>)
            /\ tau[r] = Full(n_trials, n_times, <<1, 2>>)
      /\ mlog[r] # <<>> =>
            mlog[r][1].sample_weights = Full(n_trials, n_times, <<1, 1>>)

C2_Witness ==
  ~init_tau /\ \E r \in Runs : mlog[r] # <<>> /\ n_trials = 2

\* C3: for every n_iter_global >= 0 the call ends without error and returns
\* (d_hat, z_hat, tau): d_hat and z_hat of the last Maximization, tau of the
\* last Expectation.
C3_ReturnsTriple ==
  \A r \in Runs :
    /\ pc[r] # "error"
    /\ pc[r] = "done" =>
         ret[r] = <<Last(mlog[r]).d_hat, Last(mlog[r]).z_hat, Last(elog[r]).tau>>

\* the docstring of alpha (line 34): float in [0, 2[
AlphaInRange(a) == a[1] >= 0 /\ a[1] < 2 * a[2]

\* C4: with alpha outside [0, 2) the call is rejected before any iteration: no
\* Maximization and no Expectation step is executed.
C4_AlphaRejected ==
  ~AlphaInRange(alpha) => \A r \in Runs : trace[r] = <<>> /\ pc[r] # "done"

\* C8: the k-th Maximization (k >= 2) gets 2 * tau of the Expectation before
\* it; the k-th Expectation gets the phi of the Expectation before it (the
\* initial phi for the first) and the X_hat built from the z_hat and d_hat of
\* the same iteration's Maximization; phi and tau are replaced once per
\* iteration, by the Expectation only.
C8_WeightsFlow ==
  \A r \in Runs :
    /\ \A k \in 2..Len(mlog[r]) :
          mlog[r][k].sample_weights = Map2Scale(2, elog[r][k - 1].tau)
    /\ \A k \in 1..Len(elog[r]) :
          /\ elog[r][k].phi_in =
               IF k = 1 THEN InitPhi(init_tau, X) ELSE elog[r][k - 1].phi
          /\ elog[r][k].X_hat = construct_X(mlog[r][k].z_hat, mlog[r][k].d_hat)
    /\ pc[r] # "start" =>
          /\ Len(elog[r]) = ii[r]
          /\ phi[r] = IF elog[r] = <<>> THEN InitPhi(init_tau, X) ELSE Last(elog[r]).phi
          /\ tau[r] = IF elog[r] = <<>> THEN InitTau(init_tau, X) ELSE Last(elog[r]).tau

C8_Witness ==
  \E r \in Runs :
    /\ Len(mlog[r]) >= 2
    /\ Len(elog[r]) >= 2
    /\ mlog[r][2].sample_weights # mlog[r][1].sample_weights
    /\ elog[r][2].phi_in # elog[r][1].phi_in
    /\ elog[r][2].X_hat # elog[r][1].X_hat

\* C9: the first Maximization is warm-started with the caller's ds_init
\* (possibly None), every later one with the d_hat of the Maximization before
\* it; the dictionary is never reset between the iterations.
C9_WarmStart ==
  \A r \in Runs :
    /\ \A k \in 1..Len(mlog[r]) :
          mlog[r][k].ds_init = IF k = 1 THEN ds_init ELSE mlog[r][k - 1].d_hat
    /\ pc[r] # "start" =>
          d_hat[r] = IF mlog[r] = <<>> THEN ds_init ELSE Last(mlog[r]).d_hat

C9_Witness ==
  \E r \in Runs :
    /\ Len(mlog[r]) >= 2
    /\ mlog[r][1].d_hat # ds_init
    /\ mlog[r][2].ds_init = mlog[r][1].d_hat

\* a log without the identities of the generator objects
Streams(log) == [k \in 1..Len(log) |-> [state |-> log[k].state, state_out |-> log[k].state_out]]
Steps(r) ==
  [k \in 1..Len(trace[r]) |->
     IF k % 2 = 1 THEN mlog[r][(k + 1) \div 2] ELSE elog[r][k \div 2]]

\* C10: the generator is obtained once per call, before the loop; every
\* Maximization and Expectation gets that same generator object, which is
\* never re-created or re-seeded (each step finds the stream where the step
\* before left it); two calls with the same int random_state and the same
\* inputs run the same steps on the same generator states and return the same
\* (d_hat, z_hat, tau).
C10_OneGenerator ==
  /\ \A r \in Runs :
       /\ n_check[r] = IF pc[r] = "start" THEN 0 ELSE 1
       /\ \A k \in 1..Len(trace[r]) :
            /\ Steps(r)[k].gen = rng[r].val
            /\ k > 1 => Steps(r)[k].state = Steps(r)[k - 1].state_out
       /\ (random_state.kind = "int" /\ trace[r] # <<>>) =>
            Steps(r)[1].state = random_state.val % 7
  /\ Len(gens) = 1 + (IF random_state.kind = "int"
                      THEN Cardinality({r \in Runs : pc[r] # "start"}) ELSE 0)
  /\ (random_state.kind = "int" /\ \A r \in Runs : Terminated(r)) =>
       \A r \in Runs :
          /\ pc[r] = pc[1]
          /\ ret[r] = ret[1]
          /\ trace[r] = trace[1]
          /\ Streams(Steps(r)) = Streams(Steps(1))

C10_Witness ==
  /\ random_state.kind = "int"
  /\ \A r \in Runs : pc[r] = "done" /\ Len(trace[r]) >= 4
  /\ ret[2] = ret[1]

\* with random_state None the two calls share numpy's generator and differ
C10_GlobalStreamDiffers ==
  /\ random_state.kind = "none"
  /\ \A r \in Runs : pc[r] = "done"
  /\ ret[2] # ret[1]

\* the contraction as the claim states it, for the python indices t and s:
\* G[k0, p, t] = sum over k1 and s in 0..L-1 of ZtZ[k0, k1, t + s] * D[k1, p, L - 1 - s]
Contraction(Z, D) ==
  LET L == Len(D[1][1])
  IN  [k0 \in 1..Len(D) |-> [p \in 1..Len(D[1]) |-> [t \in 0..(L - 1) |->
        SumSeq([k1 \in 1..Len(D) |->
           SumSeq([j \in 1..L |-> Z[k0][k1][(t + (j - 1)) + 1] * D[k1][p][(L - 1 - (j - 1)) + 1]])])]]]

\* C5: the five full-rank contractions return the same array G, shaped like D,
\* with G[k0, p, t] as above, for every ZtZ and D (n_times_atom = 1 included).
C5_FullRankAgree ==
  \A i \in 1..Len(cres) :
    cres[i].func # "numpy_convolve_uv" =>
      /\ Len(cres[i].G) = cdims.n_atoms
      /\ \A k0 \in 1..cdims.n_atoms :
           /\ Len(cres[i].G[k0]) = cdims.n_channels
           /\ \A p \in 1..cdims.n_channels :
                /\ Len(cres[i].G[k0][p]) = cdims.n_times_atom
                /\ \A t \in 0..(cdims.n_times_atom - 1) :
                     cres[i].G[k0][p][t + 1] = Contraction(ZtZ, cD)[k0][p][t]
      /\ cres[i].G = cres[1].G

C5_Witness ==
  /\ cmode = "benchmark"
  /\ Len(cres) >= 5
  /\ cdims.n_atoms = 2
  /\ cdims.n_times_atom = 2
  /\ cdims.n_channels = 2
  /\ cres[5].G[1] # cres[5].G[2]
  /\ cres[5].G[1][1] # cres[5].G[1][2]
  /\ cres[5].G[1][1][1] # cres[5].G[1][1][2]

\* the case n_times_atom = 1 of C5
C5_WitnessLengthOne ==
  /\ Len(cres) >= 5
  /\ cdims.n_times_atom = 1
  /\ cres[5].G[1][1][1] # 0

\* C6: numpy_convolve_uv(ZtZ, hstack([u, v])) equals numpy_convolve(ZtZ, D)
\* for D[k, p, t] = u[k, p] * v[k, t], with n_channels and n_times_atom
\* recovered from the shapes of ZtZ and uv; the assertions of test_equality hold.
C6_FactorizedAgrees ==
  /\ assert_ok
  /\ \A i \in 1..Len(cres) :
       cres[i].func = "numpy_convolve_uv" =>
         /\ cres[i].G = numpy_convolve(ZtZ, OuterD(cu, cv))
         /\ UvTimesAtom(ZtZ) = cdims.n_times_atom
         /\ UvChannels(ZtZ, hstack(cu, cv)) = cdims.n_channels

C6_Witness ==
  /\ cmode = "test_equality"
  /\ Len(cres) = Len(all_func)
  /\ cdims.n_atoms = 2
  /\ cdims.n_channels = 2
  /\ cres[6].G = reference
  /\ cres[6].G[1][1] # cres[6].G[1][2]

====
